---- MODULE Spec2Model ----
(***************************************************************************)
(* A model of spezi_data_pipeline/data_exploration/data_explorer.py:       *)
(* the two visualizers (DataExplorer, ECGExplorer), the selector           *)
(* visualizer_factory and the summary explore_total_records_number.        *)
(*                                                                         *)
(* Encoding of Python values                                               *)
(*   None                 the string None_ ("<None>") where strings are    *)
(*                        expected, NoDate (0) where a date is expected    *)
(*   datetime.date        its day ordinal, a member of Days                *)
(*   "YYYY-MM-DD" string  DateStr(d)                                       *)
(*   str / list / None    a tagged record: [tag |-> "none"],               *)
(*                        [tag |-> "str", s |-> ..], [tag |-> "list",      *)
(*                        l |-> <<..>>]                                    *)
(*   DataFrame            the sequence of its rows; a selection of rows    *)
(*                        is the sequence of the selected positions        *)
(*   recording payload    the sequence of its whitespace-separated tokens  *)
(*   sample in millivolt  an integer number of thousandths of a millivolt  *)
(***************************************************************************)
EXTENDS Integers, Sequences, FiniteSets, TLC

\* ------------------------------------------------------------------ bounds
MaxRows == 2      \* rows of a dataset
MaxIds == 2       \* length of an identifier list passed to a setter
MaxLen == 6       \* tokens of a recording payload
MaxCalls == 2     \* render calls in a row on one dataset

\* ------------------------------------------------------- program constants
ECG_MICROVOLT_UNIT == "uV"
ECG_MILLIVOLT_UNIT == "mV"
DEFAULT_SAMPLE_RATE_VALUE == 500
DEFAULT_LINE_WIDTH_VALUE == "0.5"
DEFAULT_AMPLITUDE_ECG == "1.8"
DEFAULT_TIME_TICKS == "0.2"

\* ------------------------------------------------------------ value domains
None_ == "<None>"
NoDate == 0
Days == {1, 2}      \* the calendar: day ordinals of 2024-01-01, 2024-01-02
Users == {"A", "B"}
Codes == {"X", "Y"}
OBSERVATION == "Observation"
ECG_OBSERVATION == "ECGObservation"
OTHER_RESOURCE == "QuestionnaireResponse"
ResourceTypes == {OBSERVATION, ECG_OBSERVATION, OTHER_RESOURCE}

\* The text of day d in the "%Y-%m-%d" format.
DateStr(d) == "2024-01-0" \o ToString(d)

\* Arguments a caller passes to set_date_range: None, the empty string, a
\* well-formed date and a string strptime rejects.
DateArgs == {None_, "", "01/02/2024"} \cup {DateStr(d) : d \in Days}

NoneArg == [tag |-> "none"]
StrArg(s) == [tag |-> "str", s |-> s]
ListArg(l) == [tag |-> "list", l |-> l]
SeqsUpTo(S, n) == UNION {[1..k -> S] : k \in 0..n}

\* Arguments a caller passes to set_user_ids.
IdArgs == {NoneArg} \cup {StrArg(u) : u \in Users}
            \cup {ListArg(l) : l \in SeqsUpTo(Users, MaxIds)}

\* isinstance(x, list)
IsList(x) == x.tag = "list"

\* Python truthiness of a string-or-None argument.
Truthy(s) == s # None_ /\ s # ""

\* datetime.strptime(s, "%Y-%m-%d").date(): the day, or a ValueError.
strptime(s) ==
    IF \E d \in Days : DateStr(d) = s
    THEN [ok |-> TRUE, val |-> CHOOSE d \in Days : DateStr(d) = s]
    ELSE [ok |-> FALSE, val |-> NoDate]

\* ------------------------------------------------------------------- state
VARIABLES
    explorer,       \* class of the visualizer in hand: "none" before one is made
    start_date,     \* self.start_date
    end_date,       \* self.end_date
    user_ids,       \* self.user_ids
    y_lower,        \* DataExplorer.y_lower
    y_upper,        \* DataExplorer.y_upper
    combine_plots,  \* DataExplorer.combine_plots
    lwidth,         \* ECGExplorer.lwidth
    amplitude_ecg,  \* ECGExplorer.amplitude_ecg
    time_ticks,     \* ECGExplorer.time_ticks
    ids_arg,        \* what the last set_user_ids call of this visualizer was
                    \* passed; [tag |-> "never"] before the first
    ret             \* outcome of the last call: its arguments, result and notices

config == <<start_date, end_date, user_ids, y_lower, y_upper, combine_plots,
            lwidth, amplitude_ecg, time_ticks>>
vars == <<explorer, config, ids_arg, ret>>

\* A run of the model is one session of a caller: it selects a visualizer,
\* calls setters in any order and number, and ends with a render call, which
\* it may repeat on the same dataset up to MaxCalls times, or with one
\* summary call, whose outcome stays in ret, or with the first exception (the
\* module catches none, so it reaches the caller).
RenderOps == {"create_static_plot", "plot_ecg_subplots",
              "plot_single_user_ecg", "explore_total_records_number"}
Open == ret.op \notin RenderOps /\ ret.status = "returned"

\* The caller may make render call op once more: the call before it was the
\* same call and returned.
Repeatable(op) ==
    /\ ret.op = op
    /\ ret.status = "returned"
    /\ ret.calls < MaxCalls

\* A call that returns None (every setter); a call that raises.
Returned(op) == [op |-> op, status |-> "returned"]
Raised(op, err) == [op |-> op, status |-> "raised", error |-> err]

\* No visualizer has been made yet.
Init ==
    /\ explorer = "none"
    /\ start_date = NoDate
    /\ end_date = NoDate
    /\ user_ids = NoneArg
    /\ y_lower = None_
    /\ y_upper = None_
    /\ combine_plots = TRUE
    /\ lwidth = None_
    /\ amplitude_ecg = None_
    /\ time_ticks = None_
    /\ ids_arg = [tag |-> "never"]
    /\ ret = Returned("init")

\* DataExplorer.__init__: a new object; the attributes of the other class
\* are absent from it (None_).
DataExplorer_init ==
    /\ explorer' = "DataExplorer"
    /\ start_date' = NoDate
    /\ end_date' = NoDate
    /\ user_ids' = NoneArg
    /\ y_lower' = None_
    /\ y_upper' = None_
    /\ combine_plots' = TRUE
    /\ ids_arg' = [tag |-> "never"]
    /\ lwidth' = None_
    /\ amplitude_ecg' = None_
    /\ time_ticks' = None_

\* ECGExplorer.__init__: a new object; the attributes of the other class are
\* absent from it (None_).
ECGExplorer_init ==
    /\ explorer' = "ECGExplorer"
    /\ lwidth' = DEFAULT_LINE_WIDTH_VALUE
    /\ start_date' = NoDate
    /\ end_date' = NoDate
    /\ user_ids' = NoneArg
    /\ amplitude_ecg' = DEFAULT_AMPLITUDE_ECG
    /\ time_ticks' = DEFAULT_TIME_TICKS
    /\ ids_arg' = [tag |-> "never"]
    /\ y_lower' = None_
    /\ y_upper' = None_
    /\ combine_plots' = None_

\* A selector whose last branch falls back to the generic visualizer instead
\* of raising.
visualizer_factory_fallback(resource_type) ==
    /\ Open
    /\ IF resource_type = ECG_OBSERVATION THEN ECGExplorer_init
       ELSE DataExplorer_init
    /\ ret' = [op |-> "visualizer_factory", status |-> "returned",
               resource_type |-> resource_type,
               value |-> IF resource_type = ECG_OBSERVATION THEN "ECGExplorer"
                         ELSE "DataExplorer"]

\* visualizer_factory(fhir_dataframe): reads only fhir_dataframe.resource_type.
visualizer_factory(resource_type) ==
    IF resource_type = OBSERVATION
    THEN /\ Open
         /\ DataExplorer_init
         /\ ret' = [op |-> "visualizer_factory", status |-> "returned",
                    resource_type |-> resource_type, value |-> "DataExplorer"]
    ELSE IF resource_type = ECG_OBSERVATION
    THEN /\ Open
         /\ ECGExplorer_init
         /\ ret' = [op |-> "visualizer_factory", status |-> "returned",
                    resource_type |-> resource_type, value |-> "ECGExplorer"]
    ELSE /\ Open
         /\ UNCHANGED <<explorer, config, ids_arg>>
         /\ ret' = [op |-> "visualizer_factory", status |-> "raised",
                    resource_type |-> resource_type, value |-> None_,
                    error |-> "ValueError: Unsupported resource type"]

\* The body shared by DataExplorer.set_date_range and
\* ECGExplorer.set_date_range: start_date is assigned before end_date is
\* parsed, so a ValueError of the second strptime leaves the first assigned.
SetDateRange(op, s, e) ==
    LET ps == IF Truthy(s) THEN strptime(s) ELSE [ok |-> TRUE, val |-> NoDate]
        pe == IF Truthy(e) THEN strptime(e) ELSE [ok |-> TRUE, val |-> NoDate]
    IN  IF ~ps.ok
        THEN /\ UNCHANGED <<start_date, end_date>>
             /\ ret' = Raised(op, "ValueError")
        ELSE IF ~pe.ok
        THEN /\ start_date' = ps.val
             /\ UNCHANGED end_date
             /\ ret' = Raised(op, "ValueError")
        ELSE /\ start_date' = ps.val
             /\ end_date' = pe.val
             /\ ret' = Returned("setter")

DataExplorer_set_date_range(s, e) ==
    /\ Open
    /\ explorer = "DataExplorer"
    /\ SetDateRange("set_date_range", s, e)
    /\ UNCHANGED <<explorer, user_ids, y_lower, y_upper, combine_plots,
                   lwidth, amplitude_ecg, time_ticks, ids_arg>>

ECGExplorer_set_date_range(s, e) ==
    /\ Open
    /\ explorer = "ECGExplorer"
    /\ SetDateRange("set_date_range", s, e)
    /\ UNCHANGED <<explorer, user_ids, y_lower, y_upper, combine_plots,
                   lwidth, amplitude_ecg, time_ticks, ids_arg>>

\* DataExplorer.set_user_ids: the argument is stored as it is.
DataExplorer_set_user_ids(ids) ==
    /\ Open
    /\ explorer = "DataExplorer"
    /\ user_ids' = ids
    /\ ids_arg' = ids
    /\ ret' = Returned("setter")
    /\ UNCHANGED <<explorer, start_date, end_date, y_lower, y_upper,
                   combine_plots, lwidth, amplitude_ecg, time_ticks>>

\* ECGExplorer.set_user_ids: whatever is not a list is wrapped in one.
ECGExplorer_set_user_ids(ids) ==
    /\ Open
    /\ explorer = "ECGExplorer"
    /\ user_ids' = IF IsList(ids) THEN ids
                   ELSE IF ids.tag = "none" THEN ListArg(<<None_>>)
                   ELSE ListArg(<<ids.s>>)
    /\ ids_arg' = ids
    /\ ret' = Returned("setter")
    /\ UNCHANGED <<explorer, start_date, end_date, y_lower, y_upper,
                   combine_plots, lwidth, amplitude_ecg, time_ticks>>

\* DataExplorer.set_y_bounds
set_y_bounds(lo, hi) ==
    /\ Open
    /\ explorer = "DataExplorer"
    /\ y_lower' = lo
    /\ y_upper' = hi
    /\ ret' = Returned("setter")
    /\ UNCHANGED <<explorer, start_date, end_date, user_ids, combine_plots,
                   lwidth, amplitude_ecg, time_ticks, ids_arg>>

\* DataExplorer.set_combine_plots
set_combine_plots(b) ==
    /\ Open
    /\ explorer = "DataExplorer"
    /\ combine_plots' = b
    /\ ret' = Returned("setter")
    /\ UNCHANGED <<explorer, start_date, end_date, user_ids, y_lower, y_upper,
                   lwidth, amplitude_ecg, time_ticks, ids_arg>>

\* ------------------------------------------------------------- data frames
\* Rows of a flattened observation frame (FHIRDataFrame.df, resource_type
\* OBSERVATION): EffectiveDateTime holds datetime.date objects.
ObsRows == [UserId : Users, LoincCode : Codes, EffectiveDateTime : Days]
ObsFrames == SeqsUpTo(ObsRows, MaxRows)

\* All positions of a frame, in row order.
Positions(df) == [i \in 1..Len(df) |-> i]

\* Series.unique(): the distinct values in order of first appearance.
RECURSIVE Unique(_)
Unique(s) ==
    IF s = <<>> THEN <<>>
    ELSE LET init == Unique(SubSeq(s, 1, Len(s) - 1))
             last == s[Len(s)]
         IN  IF \E k \in 1..Len(init) : init[k] = last THEN init
             ELSE Append(init, last)

RECURSIVE Flatten(_)
Flatten(ss) ==
    IF ss = <<>> THEN <<>> ELSE ss[1] \o Flatten(SubSeq(ss, 2, Len(ss)))

\* df[ColumnNames.USER_ID.value].unique()
UserColumn(df, sel) == [k \in 1..Len(sel) |-> df[sel[k]].UserId]
CodeColumn(df, sel) == [k \in 1..Len(sel) |-> df[sel[k]].LoincCode]
TimeColumn(df, sel) == [k \in 1..Len(sel) |-> df[sel[k]].EffectiveDateTime]

\* select_data_by_dates(fhir_dataframe, start, end), of data_processor: the
\* rows whose timestamp lies in the inclusive range.
select_data_by_dates(df, sel, s, e) ==
    SelectSeq(sel, LAMBDA i : df[i].EffectiveDateTime >= s
                              /\ df[i].EffectiveDateTime <= e)

\* df[df[USER_ID] == user_id]
RowsOfUser(df, sel, user_id) == SelectSeq(sel, LAMBDA i : df[i].UserId = user_id)
\* df[df[LOINC_CODE] == loinc_code]
RowsOfCode(df, sel, code) == SelectSeq(sel, LAMBDA i : df[i].LoincCode = code)

\* "if self.start_date and self.end_date": a date object is always truthy.
DateRangeSet == start_date # NoDate /\ end_date # NoDate

\* ------------------------------------------------------------ DataExplorer
\* A variant that looks for a repeated timestamp among all rows of the
\* frame instead of the rows of the identifier.
plot_data_based_on_condition_frame(df, user_df, user_id) ==
    IF \E a \in 1..Len(df), b \in 1..Len(df) :
          a # b /\ df[a].EffectiveDateTime = df[b].EffectiveDateTime
    THEN [plot_type |-> "scatter", call |-> "plt.scatter",
          x |-> TimeColumn(df, user_df), label |-> user_id,
          data_frame |-> user_df]
    ELSE [plot_type |-> "bar", call |-> "plt.bar",
          x |-> TimeColumn(df, user_df), label |-> user_id,
          data_frame |-> user_df]

\* plot_data_based_on_condition(user_df, user_id): the draw call it issues
\* (call), the plot_type it reports, and what it passes to the call.
plot_data_based_on_condition(df, user_df, user_id) ==
    LET duplicated(k) == \E j \in 1..(k - 1) :
                            df[user_df[j]].EffectiveDateTime
                                = df[user_df[k]].EffectiveDateTime
    IN  IF \E k \in 1..Len(user_df) : duplicated(k)
        THEN [plot_type |-> "scatter", call |-> "plt.scatter",
              x |-> TimeColumn(df, user_df), label |-> user_id,
              data_frame |-> user_df]
        ELSE [plot_type |-> "bar", call |-> "plt.bar",
              x |-> TimeColumn(df, user_df), label |-> user_id,
              data_frame |-> user_df]

\* DataExplorer.plot_combined: one figure, one draw call per user of
\* users_to_plot, in that order.
plot_combined(df, df_loinc, users_to_plot, loinc_code) ==
    [kind |-> "combined", loinc_code |-> loinc_code, user_id |-> None_,
     draws |-> [k \in 1..Len(users_to_plot) |->
                  plot_data_based_on_condition(
                      df, RowsOfUser(df, df_loinc, users_to_plot[k]),
                      users_to_plot[k])],
     ylim |-> <<y_lower, y_upper>>]

\* A variant without the empty check: a figure also for an identifier that
\* has no row in the code group.
plot_individual_unchecked(df, df_loinc, user_id, loinc_code) ==
    LET user_df == RowsOfUser(df, df_loinc, user_id)
    IN  [figs |-> <<[kind |-> "individual", loinc_code |-> loinc_code,
                     user_id |-> user_id,
                     draws |-> <<plot_data_based_on_condition(
                                   df, user_df, user_id)>>,
                     ylim |-> <<y_lower, y_upper>>]>>,
         notices |-> <<>>]

\* DataExplorer.plot_individual: the figures it returns (none for None) and
\* the notices it prints.
plot_individual(df, df_loinc, user_id, loinc_code) ==
    LET user_df == RowsOfUser(df, df_loinc, user_id)
    IN  IF user_id = None_
        THEN [figs |-> <<>>,
              notices |-> <<[text |-> "User ID must be provided",
                             user_id |-> user_id, loinc_code |-> loinc_code]>>]
        ELSE IF user_df = <<>>
        THEN [figs |-> <<>>,
              notices |-> <<[text |-> "No data found for user ID",
                             user_id |-> user_id, loinc_code |-> loinc_code]>>]
        ELSE [figs |-> <<[kind |-> "individual", loinc_code |-> loinc_code,
                          user_id |-> user_id,
                          draws |-> <<plot_data_based_on_condition(
                                        df, user_df, user_id)>>,
                          ylim |-> <<y_lower, y_upper>>]>>,
              notices |-> <<>>]

\* The identifiers create_static_plot works with (lines 154-159).
ResolveUserIds(df) ==
    IF user_ids.tag = "none" THEN Unique(UserColumn(df, Positions(df)))
    ELSE IF IsList(user_ids) THEN user_ids.l
    ELSE <<user_ids.s>>

\* The loop body of create_static_plot for one code (lines 173-183).
PlotsOfCode(df, filtered, users, loinc_code) ==
    LET df_loinc == RowsOfCode(df, filtered, loinc_code)
    IN  IF combine_plots
        THEN [figs |-> <<plot_combined(df, df_loinc, users, loinc_code)>>,
              notices |-> <<>>]
        ELSE LET each == [k \in 1..Len(users) |->
                            plot_individual(df, df_loinc, users[k], loinc_code)]
             IN  [figs |-> Flatten([k \in 1..Len(users) |-> each[k].figs]),
                  notices |-> Flatten([k \in 1..Len(users) |-> each[k].notices])]

\* A variant without the early return on an empty frame: the loop over the
\* codes runs (over none) and nothing is printed.
StaticPlotOutcome_no_early_return(df) ==
    LET users == ResolveUserIds(df)
        filtered == IF DateRangeSet
                    THEN select_data_by_dates(df, Positions(df), start_date, end_date)
                    ELSE Positions(df)
        loinc_codes == Unique(CodeColumn(df, filtered))
        each == [c \in 1..Len(loinc_codes) |->
                    PlotsOfCode(df, filtered, users, loinc_codes[c])]
    IN  [op |-> "create_static_plot", status |-> "returned", df |-> df,
         users |-> users, date_filtered |-> DateRangeSet,
         filtered |-> filtered,
         figures |-> Flatten([c \in 1..Len(loinc_codes) |-> each[c].figs]),
         notices |-> Flatten([c \in 1..Len(loinc_codes) |-> each[c].notices])]

\* DataExplorer.create_static_plot(fhir_dataframe): what it returns and
\* prints, with the values of its locals user_ids and fhir_dataframe.df.
StaticPlotOutcome(df) ==
    LET users == ResolveUserIds(df)
        filtered == IF DateRangeSet
                    THEN select_data_by_dates(df, Positions(df), start_date, end_date)
                    ELSE Positions(df)
        loinc_codes == Unique(CodeColumn(df, filtered))
        each == [c \in 1..Len(loinc_codes) |->
                    PlotsOfCode(df, filtered, users, loinc_codes[c])]
    IN  IF filtered = <<>>
        THEN [op |-> "create_static_plot", status |-> "returned", df |-> df,
              users |-> users, date_filtered |-> DateRangeSet,
              filtered |-> filtered, figures |-> <<>>,
              notices |-> <<[text |-> "No data for the selected date range.",
                             user_id |-> None_, loinc_code |-> None_]>>]
        ELSE [op |-> "create_static_plot", status |-> "returned", df |-> df,
              users |-> users, date_filtered |-> DateRangeSet,
              filtered |-> filtered,
              figures |-> Flatten([c \in 1..Len(loinc_codes) |-> each[c].figs]),
              notices |-> Flatten([c \in 1..Len(loinc_codes) |-> each[c].notices])]

\* A render that keeps the identifiers it resolved in self.user_ids instead
\* of a local.
create_static_plot_keeping_ids ==
    /\ explorer = "DataExplorer"
    /\ \/ /\ Open
          /\ \E df \in ObsFrames :
                /\ ret' = StaticPlotOutcome(df) @@ [calls |-> 1]
                /\ user_ids' = ListArg(ResolveUserIds(df))
       \/ /\ Repeatable("create_static_plot")
          /\ ret' = StaticPlotOutcome(ret.df) @@ [calls |-> ret.calls + 1]
          /\ user_ids' = ListArg(ResolveUserIds(ret.df))
    /\ UNCHANGED <<explorer, start_date, end_date, y_lower, y_upper,
                   combine_plots, lwidth, amplitude_ecg, time_ticks, ids_arg>>

\* A call of create_static_plot: the first render of the session on any
\* dataset, or one more on the dataset of the call before.  No statement of
\* lines 140-281 assigns an attribute of self.
create_static_plot ==
    /\ explorer = "DataExplorer"
    /\ \/ /\ Open
          /\ \E df \in ObsFrames : ret' = StaticPlotOutcome(df) @@ [calls |-> 1]
       \/ /\ Repeatable("create_static_plot")
          /\ ret' = StaticPlotOutcome(ret.df) @@ [calls |-> ret.calls + 1]
    /\ UNCHANGED <<explorer, config, ids_arg>>

\* ------------------------------------------------------------- ECGExplorer
\* A recording payload: None, or a whitespace-separated string, held as the
\* sequence of its tokens (what str.split() returns).
NoRecording == [tag |-> "none"]
Recording(toks) == [tag |-> "str", toks |-> toks]

\* Rows of a flattened ECG frame (resource_type ECG_OBSERVATION) in the
\* session runs: a row without a payload, one whose payload holds a token
\* that is no number, and one well-formed recording in microvolt.
EcgPayloads ==
    {[ECGRecording |-> NoRecording, ECGRecordingUnit |-> ECG_MILLIVOLT_UNIT],
     [ECGRecording |-> Recording(<<"1", "x", "3">>),
      ECGRecordingUnit |-> ECG_MILLIVOLT_UNIT],
     [ECGRecording |-> Recording(<<"1", "2", "3", "4">>),
      ECGRecordingUnit |-> ECG_MICROVOLT_UNIT]}
EcgRow(u, d, p) ==
    [UserId |-> u, EffectiveDateTime |-> d, ECGRecording |-> p.ECGRecording,
     ECGRecordingUnit |-> p.ECGRecordingUnit]
EcgRows == {EcgRow(u, d, p) : u \in Users, d \in Days, p \in EcgPayloads}
EcgFrames == SeqsUpTo(EcgRows, MaxRows)

\* float(token): the number a token spells, or a ValueError.
Digits == 0..9
float(tok) ==
    IF \E n \in Digits : ToString(n) = tok
    THEN [ok |-> TRUE, val |-> CHOOSE n \in Digits : ToString(n) = tok]
    ELSE [ok |-> FALSE, val |-> 0]

\* np.array(recording.split(), dtype=float), then "/ 1000" for a recording
\* in microvolt: samples in thousandths of a millivolt.
ecg_array(toks, unit) ==
    [k \in 1..Len(toks) |->
        IF unit = ECG_MICROVOLT_UNIT THEN float(toks[k]).val
        ELSE float(toks[k]).val * 1000]

\* A variant whose last part runs to the end of the recording.
ecg_parts_with_tail(arr) ==
    LET split_length == Len(arr) \div 3
    IN  [i \in 1..3 |->
            IF i < 3
            THEN SubSeq(arr, (i - 1) * split_length + 1, i * split_length)
            ELSE SubSeq(arr, 2 * split_length + 1, Len(arr))]

\* ecg_parts (lines 432-436): ecg_array[i*split_length : (i+1)*split_length]
\* for i in range(3).
ecg_parts(arr) ==
    LET split_length == Len(arr) \div 3
    IN  [i \in 1..3 |-> SubSeq(arr, (i - 1) * split_length + 1, i * split_length)]

\* The body of the loop of plot_single_user_ecg for one row (lines 416-452):
\* the figure with its 3 sub-plots, or the ValueError of the parse.
RowFigure(df, i, user_id) ==
    LET row == df[i]
        rec == row.ECGRecording
    IN  IF rec.tag # "none"
        THEN IF \E k \in 1..Len(rec.toks) : ~float(rec.toks[k]).ok
             THEN [ok |-> FALSE, figs |-> <<>>]
             ELSE LET parts == ecg_parts(ecg_array(rec.toks, row.ECGRecordingUnit))
                  IN  [ok |-> TRUE,
                       figs |-> <<[user_id |-> user_id, row |-> i,
                                   axes |-> [a \in 1..3 |->
                                       [kind |-> "ecg", part |-> a,
                                        ecg |-> parts[a],
                                        sample_rate |-> DEFAULT_SAMPLE_RATE_VALUE,
                                        text |-> ""]]]>>]
        ELSE [ok |-> TRUE,
              figs |-> <<[user_id |-> user_id, row |-> i,
                          axes |-> [a \in 1..3 |->
                              [kind |-> "text", part |-> a, ecg |-> <<>>,
                               sample_rate |-> DEFAULT_SAMPLE_RATE_VALUE,
                               text |-> "No ECG data available for this recording."]]]>>]

\* ECGExplorer.plot_single_user_ecg(user_data, user_id): one figure per row
\* in row order; an exception of a row leaves the method before it returns.
plot_single_user_ecg(df, user_data, user_id) ==
    LET each == [k \in 1..Len(user_data) |-> RowFigure(df, user_data[k], user_id)]
    IN  IF \E k \in 1..Len(user_data) : ~each[k].ok
        THEN [ok |-> FALSE, figs |-> <<>>]
        ELSE [ok |-> TRUE, figs |-> Flatten([k \in 1..Len(user_data) |-> each[k].figs])]

\* A variant whose upper bound is exclusive.
EcgUserData_exclusive_end(df, user_id) ==
    IF DateRangeSet
    THEN SelectSeq(Positions(df), LAMBDA i :
            /\ df[i].UserId = user_id
            /\ df[i].EffectiveDateTime >= start_date
            /\ df[i].EffectiveDateTime < end_date)
    ELSE SelectSeq(Positions(df), LAMBDA i : df[i].UserId = user_id)

\* user_data of plot_ecg_subplots (lines 479-494).
EcgUserData(df, user_id) ==
    IF DateRangeSet
    THEN SelectSeq(Positions(df), LAMBDA i :
            /\ df[i].UserId = user_id
            /\ df[i].EffectiveDateTime >= start_date
            /\ df[i].EffectiveDateTime <= end_date)
    ELSE SelectSeq(Positions(df), LAMBDA i : df[i].UserId = user_id)

\* users_to_plot of plot_ecg_subplots (lines 472-476).
UsersToPlot(df) ==
    IF user_ids.tag # "none" THEN user_ids.l
    ELSE Unique(UserColumn(df, Positions(df)))

\* ECGExplorer.plot_ecg_subplots(fhir_dataframe): the loop over users_to_plot
\* runs in order and the first exception ends the call.
EcgSubplotsOutcome(df) ==
    LET users == UsersToPlot(df)
        data == [k \in 1..Len(users) |-> EcgUserData(df, users[k])]
        each == [k \in 1..Len(users) |->
                    IF data[k] # <<>>
                    THEN plot_single_user_ecg(df, data[k], users[k])
                    ELSE [ok |-> TRUE, figs |-> <<>>]]
        notice(k) == IF data[k] = <<>>
                     THEN <<[text |-> "No ECG data found for user ID",
                             user_id |-> users[k]]>>
                     ELSE <<>>
        bad == {k \in 1..Len(users) : ~each[k].ok}
        stop == IF bad = {} THEN Len(users)
                ELSE (CHOOSE k \in bad : \A j \in bad : k <= j) - 1
    IN  [op |-> "plot_ecg_subplots",
         status |-> IF bad = {} THEN "returned" ELSE "raised",
         error |-> IF bad = {} THEN "" ELSE "ValueError",
         df |-> df, users |-> users, date_filtered |-> DateRangeSet,
         user_data |-> data,
         figures |-> IF bad = {}
                     THEN Flatten([k \in 1..Len(users) |-> each[k].figs])
                     ELSE <<>>,
         notices |-> Flatten([k \in 1..stop |-> notice(k)])]

\* A call of plot_ecg_subplots: the first render of the session on any
\* dataset, or one more on the dataset of the call before.  No statement of
\* lines 399-503 assigns an attribute of self.
plot_ecg_subplots ==
    /\ explorer = "ECGExplorer"
    /\ \/ /\ Open
          /\ \E df \in EcgFrames : ret' = EcgSubplotsOutcome(df) @@ [calls |-> 1]
       \/ /\ Repeatable("plot_ecg_subplots")
          /\ ret' = EcgSubplotsOutcome(ret.df) @@ [calls |-> ret.calls + 1]
    /\ UNCHANGED <<explorer, config, ids_arg>>

\* ------------------------------------------- explore_total_records_number
\* pd.Timestamp: what pd.to_datetime makes of a datetime.date, and what a
\* comparison of the column makes of a "YYYY-MM-DD" string.
Timestamp(d) == [date |-> d, time |-> "00:00:00"]
TimestampOfStr(s) == Timestamp(strptime(s).val)
TsLeq(a, b) == a.date < b.date \/ (a.date = b.date /\ a.time = b.time)

\* df["EffectiveDateTime"] = pd.to_datetime(df["EffectiveDateTime"]) (line
\* 587): the column of the frame the caller passed is replaced.
to_datetime(df) ==
    [i \in 1..Len(df) |->
        [df[i] EXCEPT !.EffectiveDateTime = Timestamp(df[i].EffectiveDateTime)]]

\* Bounds a caller passes: None or a "YYYY-MM-DD" string.
BoundArgs == {None_} \cup {DateStr(d) : d \in Days}

SeqRange(s) == {s[k] : k \in 1..Len(s)}

\* Lines 587-601: the converted frame, the rows left by the two filters and
\* the table of counts per (LoincCode, UserId).
SummaryOutcome(df, start, end, ids) ==
    LET conv == to_datetime(df)
        lo == TimestampOfStr(start)
        hi == TimestampOfStr(end)
        by_date == IF start # None_ /\ end # None_
                   THEN SelectSeq(Positions(conv), LAMBDA i :
                            /\ TsLeq(lo, conv[i].EffectiveDateTime)
                            /\ TsLeq(conv[i].EffectiveDateTime, hi))
                   ELSE Positions(conv)
        id_list == IF ids.tag = "str" THEN ListArg(<<ids.s>>) ELSE ids
        by_user == IF id_list.tag # "none"
                   THEN SelectSeq(by_date, LAMBDA i :
                            conv[i].UserId \in SeqRange(id_list.l))
                   ELSE by_date
        codes == {conv[i].LoincCode : i \in SeqRange(by_user)}
        users == {conv[i].UserId : i \in SeqRange(by_user)}
    IN  [op |-> "explore_total_records_number", df |-> df,
         start_date |-> start, end_date |-> end, user_ids |-> ids,
         df_after |-> conv, filtered |-> by_user,
         counts |-> [c \in codes |-> [u \in users |->
                        Cardinality({i \in SeqRange(by_user) :
                            conv[i].LoincCode = c /\ conv[i].UserId = u})]]]

\* explore_total_records_number(df, start_date, end_date, user_ids): a
\* module-level function that reads no visualizer.  What DataFrame.plot does
\* with an empty table of counts is the plotting library's: it draws nothing
\* or raises.
explore_total_records_number ==
    /\ Open
    /\ explorer = "none"
    /\ \E df \in ObsFrames, s \in BoundArgs, e \in BoundArgs, ids \in IdArgs :
         LET out == SummaryOutcome(df, s, e, ids)
         IN  \E status \in (IF out.filtered = <<>> THEN {"returned", "raised"}
                            ELSE {"returned"}) :
                ret' = out @@ [status |-> status]
    /\ UNCHANGED <<explorer, config, ids_arg>>

\* ------------------------------------------------ one recording at a time
\* Payloads of up to MaxLen tokens, well-formed or not, in either unit.
Tokens == {"1", "2", "x"}
SplitPayloads ==
    {[ECGRecording |-> Recording(toks), ECGRecordingUnit |-> unit] :
        toks \in SeqsUpTo(Tokens, MaxLen),
        unit \in {ECG_MICROVOLT_UNIT, ECG_MILLIVOLT_UNIT}}

\* ECGExplorer.plot_single_user_ecg(user_data, user_id) on a frame of one row.
plot_single_user_ecg_call ==
    /\ Open
    /\ explorer = "ECGExplorer"
    /\ \E u \in Users, d \in Days, p \in SplitPayloads :
         LET df == <<EcgRow(u, d, p)>>
             out == plot_single_user_ecg(df, Positions(df), u)
         IN  ret' = [op |-> "plot_single_user_ecg",
                     status |-> IF out.ok THEN "returned" ELSE "raised",
                     df |-> df, figures |-> out.figs]
    /\ UNCHANGED <<explorer, config, ids_arg>>

Next ==
    \/ \E k \in ResourceTypes : visualizer_factory(k)
    \/ \E s \in DateArgs, e \in DateArgs : DataExplorer_set_date_range(s, e)
    \/ \E s \in DateArgs, e \in DateArgs : ECGExplorer_set_date_range(s, e)
    \/ \E ids \in IdArgs : DataExplorer_set_user_ids(ids)
    \/ \E ids \in IdArgs : ECGExplorer_set_user_ids(ids)
    \/ set_y_bounds("50", "1000")
    \/ \E b \in BOOLEAN : set_combine_plots(b)
    \/ create_static_plot
    \/ plot_ecg_subplots
    \/ explore_total_records_number

Spec == Init /\ [][Next]_vars

\* A waveform visualizer, as constructed, plotting single recordings.
InitSplit ==
    /\ explorer = "ECGExplorer"
    /\ lwidth = DEFAULT_LINE_WIDTH_VALUE
    /\ start_date = NoDate
    /\ end_date = NoDate
    /\ user_ids = NoneArg
    /\ amplitude_ecg = DEFAULT_AMPLITUDE_ECG
    /\ time_ticks = DEFAULT_TIME_TICKS
    /\ y_lower = None_
    /\ y_upper = None_
    /\ combine_plots = None_
    /\ ids_arg = [tag |-> "never"]
    /\ ret = Returned("init")

NextSplit == plot_single_user_ecg_call

SpecSplit == InitSplit /\ [][NextSplit]_vars
\* ================================================================== claims
\* Helpers of the statements below: sets of row positions, read off the
\* frame a call was given.
Rows(df) == 1..Len(df)
InRange(df, i, lo, hi) ==
    df[i].EffectiveDateTime >= lo /\ df[i].EffectiveDateTime <= hi
Occurrences(s, v) == Cardinality({k \in 1..Len(s) : s[k] = v})
IsStaticPlot == ret.op = "create_static_plot"
IsEcgPlot == ret.op = "plot_ecg_subplots"
IsSummary == ret.op = "explore_total_records_number"

\* The rows create_static_plot is left with by the configured date range.
KeptRows(df) ==
    IF start_date # NoDate /\ end_date # NoDate
    THEN {i \in Rows(df) : InRange(df, i, start_date, end_date)}
    ELSE Rows(df)
KeptCodes(df) == {df[i].LoincCode : i \in KeptRows(df)}
GroupRows(df, c, u) ==
    {i \in KeptRows(df) : df[i].LoincCode = c /\ df[i].UserId = u}
FiguresOf(c, u) ==
    {k \in 1..Len(ret.figures) :
        ret.figures[k].loinc_code = c /\ ret.figures[k].user_id = u}

\* C1: visualizer_factory returns a DataExplorer for resource_type
\* OBSERVATION, an ECGExplorer for ECG_OBSERVATION, and for every other
\* resource_type raises the unsupported-kind error and returns no visualizer
\* (the visualizer in hand, if any, stays as it was).
C1_FactorySelects ==
    ret.op = "visualizer_factory" =>
        /\ ret.resource_type = OBSERVATION =>
              ret.status = "returned" /\ ret.value = "DataExplorer"
              /\ explorer = "DataExplorer"
        /\ ret.resource_type = ECG_OBSERVATION =>
              ret.status = "returned" /\ ret.value = "ECGExplorer"
              /\ explorer = "ECGExplorer"
        /\ ret.resource_type \notin {OBSERVATION, ECG_OBSERVATION} =>
              ret.status = "raised" /\ ret.value = None_
              /\ ret.error = "ValueError: Unsupported resource type"

\* The selector was given a kind it does not know and raised.
C1_Witness ==
    /\ ret.op = "visualizer_factory"
    /\ ret.resource_type = OTHER_RESOURCE
    /\ ret.status = "raised"

\* C2 as stated: create_static_plot returns one figure per distinct code of
\* the date-filtered dataset in combine mode, and in separate mode exactly
\* one figure per (code, identifier) pair whose identifier is in the resolved
\* identifier set and has a row in the code group, and no other figure.
C2_OneFigurePerPair ==
    (IsStaticPlot /\ ret.status = "returned") =>
        IF combine_plots
        THEN /\ Len(ret.figures) = Cardinality(KeptCodes(ret.df))
             /\ \A c \in KeptCodes(ret.df) : Cardinality(FiguresOf(c, None_)) = 1
        ELSE /\ \A c \in Codes, u \in Users :
                  Cardinality(FiguresOf(c, u)) =
                      IF u \in SeqRange(ret.users) /\ GroupRows(ret.df, c, u) # {}
                      THEN 1 ELSE 0
             /\ \A k \in 1..Len(ret.figures) :
                  ret.figures[k].user_id \in SeqRange(ret.users)

\* C2 amended: in separate mode the figures of a (code, identifier) pair are
\* as many as the identifier occurs in the resolved identifier list when it
\* has a row in the code group (one when the list names it once), and none
\* when it has no row there; the other pairs keep their figures.  Combine
\* mode: one combined figure per distinct code of the date-filtered dataset.
C2_OneFigurePerListEntry ==
    (IsStaticPlot /\ ret.status = "returned") =>
        IF combine_plots
        THEN /\ Len(ret.figures) = Cardinality(KeptCodes(ret.df))
             /\ \A c \in KeptCodes(ret.df) : Cardinality(FiguresOf(c, None_)) = 1
             /\ \A k \in 1..Len(ret.figures) : ret.figures[k].kind = "combined"
        ELSE /\ \A c \in Codes, u \in Users :
                  Cardinality(FiguresOf(c, u)) =
                      IF GroupRows(ret.df, c, u) # {}
                      THEN Occurrences(ret.users, u) ELSE 0
             /\ \A k \in 1..Len(ret.figures) :
                  /\ ret.figures[k].kind = "individual"
                  /\ ret.figures[k].user_id \in SeqRange(ret.users)

\* Separate mode, two identifiers asked for, one of them without a row in the
\* only code group: the other one still gets its figure.
C2_Witness ==
    /\ IsStaticPlot
    /\ ~combine_plots
    /\ ret.users = <<"A", "B">>
    /\ Len(ret.figures) = 1
    /\ ret.figures[1].user_id = "B"
    /\ Len(ret.notices) = 1

\* C4: plot_data_based_on_condition draws an identifier group with scatter
\* when two of its rows share a timestamp and with bar when its timestamps
\* are pairwise distinct (a single row, or no row, included), and the
\* plot_type it reports names the draw function it called.  The group is the
\* rows of the identifier in the code group of the figure.
C4_ScatterIffDuplicates ==
    IsStaticPlot =>
        \A k \in 1..Len(ret.figures) :
            \A j \in 1..Len(ret.figures[k].draws) :
                LET d == ret.figures[k].draws[j]
                    group == GroupRows(ret.df, ret.figures[k].loinc_code, d.label)
                    shared == \E a \in group, b \in group :
                                a # b /\ ret.df[a].EffectiveDateTime
                                           = ret.df[b].EffectiveDateTime
                IN  /\ SeqRange(d.data_frame) = group
                    /\ Len(d.data_frame) = Cardinality(group)
                    /\ shared => d.plot_type = "scatter" /\ d.call = "plt.scatter"
                    /\ ~shared => d.plot_type = "bar" /\ d.call = "plt.bar"

\* A figure holds a scatter draw of an identifier group with two rows or more.
C4_Witness ==
    /\ IsStaticPlot
    /\ \E k \in 1..Len(ret.figures) :
          \E j \in 1..Len(ret.figures[k].draws) :
              /\ ret.figures[k].draws[j].plot_type = "scatter"
              /\ Len(ret.figures[k].draws[j].x) >= 2
\* The rows of an ECG frame that pass the identifier filter and the date
\* range filter of the configuration.
EcgInside(df, u) ==
    {i \in Rows(df) :
        /\ df[i].UserId = u
        /\ (start_date # NoDate /\ end_date # NoDate)
              => InRange(df, i, start_date, end_date)}
EcgPassing(df) == UNION {EcgInside(df, u) : u \in SeqRange(ret.users)}
FigureRows == {ret.figures[k].row : k \in 1..Len(ret.figures)}
NumberTokens == {"0", "1", "2", "3", "4", "5", "6", "7", "8", "9"}
WellFormed(rec) ==
    rec.tag = "none" \/ \A k \in 1..Len(rec.toks) : rec.toks[k] \in NumberTokens

\* C3 as stated: plot_ecg_subplots returns exactly one figure per row that
\* passes the identifier filter and the date range filter, so as many
\* figures as there are such rows, whatever identifier list is configured;
\* every figure has 3 sub-plots, and a row without a payload has the
\* placeholder notice in all 3.
C3_OneFigurePerRow ==
    IsEcgPlot =>
        /\ ret.status = "returned"
        /\ Len(ret.figures) = Cardinality(EcgPassing(ret.df))
        /\ FigureRows = EcgPassing(ret.df)
        /\ \A k \in 1..Len(ret.figures) :
              /\ DOMAIN ret.figures[k].axes = 1..3
              /\ ret.df[ret.figures[k].row].ECGRecording.tag = "none" =>
                    \A a \in 1..3 : ret.figures[k].axes[a].kind = "text"

\* C10 as stated: a malformed payload is fatal for its row only: every
\* other row that passes the filters, of every identifier, has its figure
\* in the list plot_ecg_subplots returns.
C10_MalformedRowSkipped ==
    IsEcgPlot =>
        \A i \in EcgPassing(ret.df) :
            WellFormed(ret.df[i].ECGRecording) =>
                ret.status = "returned" /\ i \in FigureRows

\* The value a number token spells, in thousandths of a millivolt.
TokenValue(tok) == IF tok = "1" THEN 1 ELSE 2
SampleOf(row, j) ==
    TokenValue(row.ECGRecording.toks[j])
        * (IF row.ECGRecordingUnit = ECG_MILLIVOLT_UNIT THEN 1000 ELSE 1)

\* C5: a recording of L samples is split into exactly 3 segments of
\* floor(L/3) samples each; segment i (i = 0, 1, 2) holds the samples at
\* the positions i*floor(L/3) .. (i+1)*floor(L/3) - 1 in their order, so the
\* segments are contiguous and disjoint, they use 3*floor(L/3) <= L samples,
\* and the last L mod 3 samples are in no segment.
C5_ThreeEqualSegments ==
    (ret.op = "plot_single_user_ecg" /\ ret.status = "returned") =>
        LET row == ret.df[1]
            L == Len(row.ECGRecording.toks)
            q == L \div 3
        IN  /\ Len(ret.figures) = 1
            /\ DOMAIN ret.figures[1].axes = 1..3
            /\ 3 * q <= L
            /\ \A a \in 1..3 :
                  LET seg == ret.figures[1].axes[a].ecg
                  IN  /\ Len(seg) = q
                      /\ \A k \in 1..q : seg[k] = SampleOf(row, (a - 1) * q + k)

\* A recording of 5 samples, whose last 2 are dropped, was split.
C5_Witness ==
    /\ ret.op = "plot_single_user_ecg"
    /\ ret.status = "returned"
    /\ Len(ret.df[1].ECGRecording.toks) = 5
    /\ Len(ret.figures[1].axes[3].ecg) = 1

\* The day a "YYYY-MM-DD" bound names.
DayOfStr(s) == CHOOSE d \in Days : DateStr(d) = s
PassesIds(u, ids) ==
    \/ ids.tag = "none"
    \/ ids.tag = "str" /\ u = ids.s
    \/ ids.tag = "list" /\ u \in SeqRange(ids.l)
CountOf(c, u) ==
    IF c \in DOMAIN ret.counts /\ u \in DOMAIN ret.counts[c]
    THEN ret.counts[c][u] ELSE 0

\* C6: with both date bounds set, the rows plot_ecg_subplots selects for an
\* identifier are exactly its rows with start <= t <= end, every figure it
\* returns is of such a row and, when it returns, every such row of the
\* identifiers has its figure; the rows explore_total_records_number counts
\* are exactly the rows with start <= t <= end that pass the identifier
\* filter, each counted once under its (code, identifier).
C6_InclusiveDateRange ==
    /\ (IsEcgPlot /\ start_date # NoDate /\ end_date # NoDate) =>
          /\ \A k \in 1..Len(ret.users) :
                /\ SeqRange(ret.user_data[k]) =
                      {i \in Rows(ret.df) :
                          /\ ret.df[i].UserId = ret.users[k]
                          /\ start_date <= ret.df[i].EffectiveDateTime
                          /\ ret.df[i].EffectiveDateTime <= end_date}
          /\ \A i \in FigureRows :
                /\ start_date <= ret.df[i].EffectiveDateTime
                /\ ret.df[i].EffectiveDateTime <= end_date
          /\ ret.status = "returned" =>
                \A i \in Rows(ret.df) :
                    (/\ ret.df[i].UserId \in SeqRange(ret.users)
                     /\ start_date <= ret.df[i].EffectiveDateTime
                     /\ ret.df[i].EffectiveDateTime <= end_date)
                        => i \in FigureRows
    /\ (IsSummary /\ ret.start_date # None_ /\ ret.end_date # None_) =>
          LET inside == {i \in Rows(ret.df) :
                            /\ DayOfStr(ret.start_date) <= ret.df[i].EffectiveDateTime
                            /\ ret.df[i].EffectiveDateTime <= DayOfStr(ret.end_date)
                            /\ PassesIds(ret.df[i].UserId, ret.user_ids)}
          IN  /\ SeqRange(ret.filtered) = inside
              /\ Len(ret.filtered) = Cardinality(inside)
              /\ \A c \in Codes, u \in Users :
                    CountOf(c, u) =
                        Cardinality({i \in inside : /\ ret.df[i].LoincCode = c
                                                    /\ ret.df[i].UserId = u})

\* A range of one day: the row dated on the end day has its figure, the row
\* of the same identifier dated after it has none.
C6_Witness ==
    /\ IsEcgPlot
    /\ ret.status = "returned"
    /\ start_date = 1 /\ end_date = 1
    /\ Len(ret.df) = 2
    /\ ret.df[1].UserId = ret.df[2].UserId
    /\ ret.df[1].EffectiveDateTime = 1
    /\ ret.df[2].EffectiveDateTime = 2
    /\ FigureRows = {1}

\* C7: when the date-filtered dataset is empty, create_static_plot prints
\* the no-data notice and returns the empty list, creating no figure, in
\* combine mode and in separate mode; it returns normally.
C7_EmptyShortCircuit ==
    (IsStaticPlot /\ KeptRows(ret.df) = {}) =>
        /\ ret.status = "returned"
        /\ ret.figures = <<>>
        /\ Len(ret.notices) = 1
        /\ ret.notices[1].text = "No data for the selected date range."

\* Separate mode, a frame with rows, all of them outside the date range.
C7_Witness ==
    /\ IsStaticPlot
    /\ ~combine_plots
    /\ Len(ret.df) > 0
    /\ KeptRows(ret.df) = {}
    /\ ret.figures = <<>>

\* C8 as stated: for both visualizers, when set_user_ids was never called or
\* was last called with None, a render call works with every distinct
\* identifier of the dataset, each once; a single identifier passed instead
\* of a list is the one-element list holding it.
C8_AbsentFilterMeansAll ==
    (IsStaticPlot \/ IsEcgPlot) =>
        /\ ids_arg.tag \in {"never", "none"} =>
              /\ \A i \in Rows(ret.df) : ret.df[i].UserId \in SeqRange(ret.users)
              /\ \A u \in Users : Occurrences(ret.users, u) <= 1
        /\ ids_arg.tag = "str" => ret.users = <<ids_arg.s>>

\* C9 as stated: in every configuration of a visualizer start_date and
\* end_date are both set or both unset, and a render call applies the date
\* filter exactly when a date range is configured.
C9_BothOrNeither ==
    /\ explorer # "none" => (start_date = NoDate <=> end_date = NoDate)
    /\ (IsStaticPlot \/ IsEcgPlot) =>
          (ret.date_filtered <=> (start_date # NoDate \/ end_date # NoDate))

\* C11: a render call (create_static_plot, plot_ecg_subplots) leaves every
\* configuration field as it was, whatever path it takes (empty result,
\* identifier without rows, exception of a row); a step that changes a
\* configuration field is a setter call or the construction of a visualizer;
\* and a render call repeated on the same dataset with no setter call in
\* between returns as many figures as the call before it.
C11_RenderReadsConfiguration ==
    [][/\ ret'.op \in {"create_static_plot", "plot_ecg_subplots"} =>
             /\ config' = config
             /\ explorer' = explorer
       /\ (ret'.op \in {"create_static_plot", "plot_ecg_subplots"}
             /\ ret.op = ret'.op) =>
             /\ ret'.df = ret.df
             /\ ret'.calls = ret.calls + 1
             /\ Len(ret'.figures) = Len(ret.figures)
       /\ ret'.op \notin {"visualizer_factory", "setter", "set_date_range"} =>
             config' = config
      ]_vars

\* create_static_plot was called twice on one dataset in separate mode with
\* a configured identifier that has no rows: one figure and one notice.
C11_Witness ==
    /\ IsStaticPlot
    /\ ret.calls = 2
    /\ ~combine_plots
    /\ user_ids.tag = "list"
    /\ Len(ret.figures) = 1
    /\ Len(ret.notices) = 1

\* C12 as stated: in combine mode the combined figure of a code group holds
\* a draw call, and with it a legend label, for exactly the identifiers of
\* the resolved set that have a row in the group; for an identifier without
\* a row there no draw call is issued.
C12_CombinedSkipsEmptyGroups ==
    (IsStaticPlot /\ combine_plots) =>
        \A k \in 1..Len(ret.figures) :
            LET fig == ret.figures[k]
                drawn == {fig.draws[j].label : j \in 1..Len(fig.draws)}
            IN  /\ \A j \in 1..Len(fig.draws) : fig.draws[j].data_frame # <<>>
                /\ drawn = {u \in SeqRange(ret.users) :
                               GroupRows(ret.df, fig.loinc_code, u) # {}}

\* repr(v): the printed form of a cell, which tells a datetime.date from a
\* pd.Timestamp of the same day.
Repr(v) == ToString(v)

\* C13 as stated: after explore_total_records_number the dataset object of
\* the caller has the rows, columns and column values it had before the
\* call, the representation of the timestamp column included, whatever
\* bounds and identifier filter were passed.
C13_DatasetUntouched ==
    IsSummary =>
        /\ Len(ret.df_after) = Len(ret.df)
        /\ \A i \in Rows(ret.df) :
              /\ DOMAIN ret.df_after[i] = DOMAIN ret.df[i]
              /\ ret.df_after[i].UserId = ret.df[i].UserId
              /\ ret.df_after[i].LoincCode = ret.df[i].LoincCode
              /\ Repr(ret.df_after[i].EffectiveDateTime)
                    = Repr(ret.df[i].EffectiveDateTime)
====
